---- MODULE Spec2Model ----
(***************************************************************************)
(* A model of src/hydrology_api.py: the HydrologyAPI client.  One call of  *)
(* a client method is modelled at a time: Call records the method and its  *)
(* arguments, and the method's handler action(s) carry it to pc = "done".  *)
(* The HTTP server and the wall clock are the environment: every response  *)
(* and every duration is drawn from a small set.                           *)
(***************************************************************************)
EXTENDS Integers, Sequences, FiniteSets, TLC

VARIABLES
    pc,         \* "idle" | "called" | "check" | "poll" | "sleep" | "done"
    op,         \* the method being called ("" when idle)
    args,       \* the arguments of the call that are still to be read
    now,        \* time.time(), in whole time units
    start_time, \* get_batch_readings: the local start_time (line 475)
    status_url, \* get_batch_readings: the local status_url (line 470)
    elapsed,    \* get_batch_readings: the local elapsed (line 477)
    submitted,  \* get_batch_readings: when the POST was sent and what it was answered
    polledOk,   \* get_batch_readings: every status poll so far succeeded and
                \* reported a status other than Completed and Failed
    lastReq,    \* the most recent HTTP request this call has issued
    served,     \* the response the server gave to lastReq
    nPost,      \* session.post calls issued by this call
    nGet,       \* session.get calls issued by this call
    nSleep,     \* time.sleep calls made by this call
    lastEv,     \* the last request or sleep of the call: "none"|"POST"|"GET"|"SLEEP"
    burst,      \* consecutive steps that took less than one time unit
    warnings,   \* the logger.warning records this call has emitted
    outcome,    \* how the call ended: a returned value or a raised exception
    session,    \* self.session: the requests.Session and the times it was closed
    block,      \* the with block over the client: "none"|"entered"|"exited"
    calls,      \* the calls made inside the with block
    propagated, \* the exception that left the with block, NotEnded when none did
    sessionLog  \* the sessions requests were issued on, as they were at the request

vars == << pc, op, args, now, start_time, status_url, elapsed, submitted, polledOk,
           lastReq, served,
           nPost, nGet, nSleep, lastEv, burst, warnings, outcome,
           session, block, calls, propagated, sessionLog >>

\* the client's session and the with block around the calls
ctx == << session, block, calls, propagated >>

-----------------------------------------------------------------------------
(* Bounds of the model *)

\* The longest an HTTP request can take, in time units (it is bounded by
\* self.timeout in the code).
MaxDelay == 2
\* poll_interval is drawn from -1 .. MaxPollInterval.
MaxPollInterval == 2
\* max_wait_time is drawn from -1 .. MaxWait.
MaxWait == 2
\* At most MaxBurst consecutive steps complete within the same time unit.
MaxBurst == 3
\* The longest that passes between two consecutive statements, and the longest
\* time.sleep oversleeps.
MaxStep == 1
\* At most MaxCalls calls are made inside one with block.
MaxCalls == 2

-----------------------------------------------------------------------------
(* Python values.  Every value is a record tagged with its type. *)

None == [t |-> "None"]
Str(s) == [t |-> "str", v |-> s]
Num(n) == [t |-> "num", v |-> n]
Bool(b) == [t |-> "bool", v |-> b]
List(q) == [t |-> "list", v |-> q]
Dict(f) == [t |-> "dict", v |-> f]
Datetime(y, m, d, h) == [t |-> "datetime", year |-> y, month |-> m, day |-> d, hour |-> h]
Text(body) == [t |-> "text", v |-> body]

\* bool(x), as the `if x:` tests of the code apply it
Truthy(x) ==
    CASE x.t = "None" -> FALSE
      [] x.t = "str"  -> x.v # ""
      [] x.t = "num"  -> x.v # 0
      [] x.t = "bool" -> x.v
      [] x.t = "list" -> x.v # << >>
      [] OTHER        -> TRUE

\* the empty dict
EmptyMap == [k \in {} |-> None]

\* d[k] = v
SetItem(d, k, v) == (k :> v) @@ d

\* `if c: d[k] = v`
SetIf(c, d, k, v) == IF c THEN SetItem(d, k, v) ELSE d

\* d.get(k) of a decoded JSON object
DictGet(d, k) == IF k \in DOMAIN d.v THEN d.v[k] ELSE None

-----------------------------------------------------------------------------
(* datetime.strftime("%Y-%m-%d") *)

Digit(n) ==
    CASE n = 0 -> "0" [] n = 1 -> "1" [] n = 2 -> "2" [] n = 3 -> "3" [] n = 4 -> "4"
      [] n = 5 -> "5" [] n = 6 -> "6" [] n = 7 -> "7" [] n = 8 -> "8" [] n = 9 -> "9"

Pad2(n) == Digit((n \div 10) % 10) \o Digit(n % 10)

Pad4(n) == Digit((n \div 1000) % 10) \o Digit((n \div 100) % 10) \o Pad2(n)

strftime(d) == Pad4(d.year) \o "-" \o Pad2(d.month) \o "-" \o Pad2(d.day)

\* format_date with the month written without its leading zero
FormatDateDropsPadding(d) ==
    IF d.t = "datetime"
    THEN Str(Pad4(d.year) \o "-" \o Digit(d.month % 10) \o "-" \o Pad2(d.day))
    ELSE d

\* _format_date, the nested helper of get_readings and get_batch_readings
format_date(d) == IF d.t = "datetime" THEN Str(strftime(d)) ELSE d

-----------------------------------------------------------------------------
(* response.json(): a JSON text is a sequence of tokens *)

Words == {"status", "positionInQueue", "url", "Queued", "Running", "Completed",
          "Failed", "Cancelled", "u1"}
Lit(w) == "\"" \o w \o "\""
StrLits == {Lit(w) : w \in Words}
Unquote(tok) == CHOOSE w \in Words : Lit(w) = tok
NumLits == {"0", "1"}
NumOf(tok) == IF tok = "0" THEN 0 ELSE 1

ParseFail == [ok |-> FALSE, val |-> None, next |-> 0]
Parsed(v, n) == [ok |-> TRUE, val |-> v, next |-> n]

RECURSIVE ParseValue(_, _)
RECURSIVE ParseElems(_, _, _)
RECURSIVE ParseMembers(_, _, _)

\* the value that starts at token i of s
ParseValue(s, i) ==
    IF i > Len(s) THEN ParseFail
    ELSE IF s[i] \in NumLits THEN Parsed(Num(NumOf(s[i])), i + 1)
    ELSE IF s[i] \in StrLits THEN Parsed(Str(Unquote(s[i])), i + 1)
    ELSE IF s[i] = "["
         THEN IF i + 1 <= Len(s) /\ s[i + 1] = "]"
              THEN Parsed(List(<< >>), i + 2)
              ELSE ParseElems(s, i + 1, << >>)
    ELSE IF s[i] = "{"
         THEN IF i + 1 <= Len(s) /\ s[i + 1] = "}"
              THEN Parsed(Dict(EmptyMap), i + 2)
              ELSE ParseMembers(s, i + 1, EmptyMap)
    ELSE ParseFail

\* the elements of an array, the first starting at token i
ParseElems(s, i, acc) ==
    LET r == ParseValue(s, i) IN
    IF ~r.ok \/ r.next > Len(s) THEN ParseFail
    ELSE IF s[r.next] = "," THEN ParseElems(s, r.next + 1, Append(acc, r.val))
    ELSE IF s[r.next] = "]" THEN Parsed(List(Append(acc, r.val)), r.next + 1)
    ELSE ParseFail

\* the members of an object, the first key at token i; a repeated key keeps
\* its last value
ParseMembers(s, i, acc) ==
    IF i + 1 > Len(s) \/ s[i] \notin StrLits \/ s[i + 1] # ":" THEN ParseFail
    ELSE LET r == ParseValue(s, i + 2) IN
         IF ~r.ok \/ r.next > Len(s) THEN ParseFail
         ELSE IF s[r.next] = ","
              THEN ParseMembers(s, r.next + 1, SetItem(acc, Unquote(s[i]), r.val))
         ELSE IF s[r.next] = "}"
              THEN Parsed(Dict(SetItem(acc, Unquote(s[i]), r.val)), r.next + 1)
         ELSE ParseFail

\* response.json(): ok = FALSE stands for JSONDecodeError, which requests
\* (2.27 and later, without simplejson) derives from json.JSONDecodeError and
\* from requests.exceptions.RequestException
json(body) ==
    LET r == ParseValue(body, 1) IN
    IF r.ok /\ r.next = Len(body) + 1 THEN r ELSE ParseFail

-----------------------------------------------------------------------------
(* How a call ends *)

Return(v) == [kind |-> "return", cls |-> "", msg |-> "", value |-> v]
Raise(cls, msg, detail) == [kind |-> "raise", cls |-> cls, msg |-> msg, value |-> detail]
\* raise HydrologyAPIError(f"{msg}{detail}")
HydrologyAPIError(msg, detail) == Raise("HydrologyAPIError", msg, detail)
NotEnded == [kind |-> "running", cls |-> "", msg |-> "", value |-> None]

-----------------------------------------------------------------------------
(* The server.  exc is what session.get / session.post followed by          *)
(* raise_for_status raises: "none", or the requests.exceptions.             *)
(* RequestException subclass (HTTPError is raise_for_status rejecting the   *)
(* status code).  body is the response text as a sequence of tokens and     *)
(* location the Location header (None when the header is absent).           *)

Response(e, b, l) == [exc |-> e, body |-> b, location |-> l]
NoResponse == Response("", << >>, None)

Obj1(k, v) == << "{", Lit(k), ":", v, "}" >>
Obj2(k, v, k2, v2) == << "{", Lit(k), ":", v, ",", Lit(k2), ":", v2, "}" >>

Bodies ==
    { Obj2("status", Lit("Queued"), "positionInQueue", "1"),
      Obj1("status", Lit("Running")),
      Obj2("status", Lit("Completed"), "url", Lit("u1")),
      Obj1("status", Lit("Completed")),
      Obj1("status", Lit("Failed")),
      Obj2("status", Lit("Failed"), "positionInQueue", "0"),
      Obj1("status", Lit("Cancelled")),
      Obj1("positionInQueue", "0"),
      << "{", "}" >>,
      << "[", "]" >>,
      << "0" >>,
      << "{" >>,
      << >> }

Failures == {"ConnectionError", "Timeout", "HTTPError"}

GetResponses ==
    {Response(e, << >>, None) : e \in Failures} \cup {Response("none", b, None) : b \in Bodies}

PostResponses ==
    {Response(e, << >>, None) : e \in Failures}
        \cup {Response("none", << >>, l) : l \in {None, Str(""), Str("u1"), Str("u2")}}

\* what the server reports in the response r to a status GET: the value of
\* the status field of the JSON object it sent, None when r is no such object
ReportedStatus(r) ==
    IF r.exc = "none" /\ json(r.body).ok /\ json(r.body).val.t = "dict"
    THEN DictGet(json(r.body).val, "status")
    ELSE None

\* the server answered the status GET with a JSON object
IsObject(r) == r.exc = "none" /\ json(r.body).ok /\ json(r.body).val.t = "dict"

\* the status GET succeeded and reported a status other than Completed and Failed
NonTerminal(r) == IsObject(r) /\ ReportedStatus(r) \notin {Str("Completed"), Str("Failed")}

Request(m, u, p, d) == [method |-> m, url |-> u, params |-> p, data |-> d]
NoRequest == Request("", "", None, None)

-----------------------------------------------------------------------------
(* _make_request, lines 73-94: what it does with the response r to the GET *)

BASE_URL == "http://environment.data.gov.uk/hydrology"

make_request_url(endpoint, format) == BASE_URL \o endpoint \o "." \o format

\* make_request decoding the body whatever the format
MakeRequestDecodesAlways(format, r) ==
    IF r.exc # "none"
    THEN HydrologyAPIError("API request failed: ", Str(r.exc))
    ELSE IF json(r.body).ok
         THEN Return(json(r.body).val)
         ELSE HydrologyAPIError("Failed to parse JSON response: ", Text(r.body))

make_request(format, r) ==
    IF r.exc # "none"
    THEN HydrologyAPIError("API request failed: ", Str(r.exc))
    ELSE IF format = "json"
         THEN IF json(r.body).ok
              THEN Return(json(r.body).val)
              ELSE HydrologyAPIError("Failed to parse JSON response: ", Text(r.body))
         ELSE Return(Text(r.body))

-----------------------------------------------------------------------------
(* The read accessors: the query parameters each builds *)

OBSERVED_PROPERTIES ==
    {"waterFlow", "waterLevel", "rainfall", "groundwaterLevel", "dissolved-oxygen",
     "fdom", "bga", "turbidity", "chlorophyll", "conductivity", "temperature",
     "ammonium", "nitrate", "ph"}
STATION_STATUSES == {"Active", "Suspended", "Closed"}

IsNotNone(x) == x.t # "None"

Warning(msg, x) == [msg |-> msg, value |-> x]

\* lines 162-166 and 224-228: the lat/long/dist block
GeoLatLong(a, p) ==
    IF IsNotNone(a.latitude) /\ IsNotNone(a.longitude)
    THEN SetIf(Truthy(a.distance),
               SetItem(SetItem(p, "lat", a.latitude), "long", a.longitude),
               "dist", a.distance)
    ELSE p

\* lines 167-171: the easting/northing/dist block
GeoEastNorth(a, p) ==
    IF IsNotNone(a.easting) /\ IsNotNone(a.northing)
    THEN SetIf(Truthy(a.distance),
               SetItem(SetItem(p, "easting", a.easting), "northing", a.northing),
               "dist", a.distance)
    ELSE p

get_stations_endpoint(a) ==
    IF Truthy(a.station_id) THEN "/id/stations/" \o a.station_id.v ELSE "/id/stations"

\* the dict `params` of get_stations when line 173 is reached
get_stations_dict(a) ==
    LET p0 == ("_limit" :> a.limit) @@ ("_offset" :> a.offset) @@ ("_view" :> a.view)
        p1 == SetIf(Truthy(a.rloi_id), p0, "RLOIid", a.rloi_id)
        p2 == SetIf(Truthy(a.wiski_id), p1, "wiskiID", a.wiski_id)
        p3 == SetIf(Truthy(a.station_guid), p2, "stationGuid", a.station_guid)
        p4 == SetIf(Truthy(a.observed_property), p3, "observedProperty", a.observed_property)
        p5 == SetIf(Truthy(a.status), p4, "status.label", a.status)
        p6 == SetIf(Truthy(a.search), p5, "search", a.search)
    IN  IF Truthy(a.station_id) THEN p0 ELSE GeoEastNorth(a, GeoLatLong(a, p6))

\* the params argument of line 173
get_stations_params(a) ==
    IF get_stations_endpoint(a) = "/id/stations" THEN Dict(get_stations_dict(a)) ELSE None

\* lines 152-158
get_stations_warnings(a) ==
    IF Truthy(a.station_id) THEN {}
    ELSE {Warning("Unknown observed property: ", a.observed_property) :
              x \in {y \in {a.observed_property} : Truthy(y) /\ y.v \notin OBSERVED_PROPERTIES}}
         \cup
         {Warning("Unknown status: ", a.status) :
              x \in {y \in {a.status} : Truthy(y) /\ y.v \notin STATION_STATUSES}}

\* lines 208-228
get_open_stations_params(a) ==
    LET from_date_str == IF a.from_date.t = "datetime" THEN Str(strftime(a.from_date)) ELSE a.from_date
        to_date_str == IF a.to_date.t = "datetime" THEN Str(strftime(a.to_date)) ELSE a.to_date
        p0 == ("from" :> from_date_str) @@ ("to" :> to_date_str)
                  @@ ("_limit" :> a.limit) @@ ("_offset" :> a.offset)
        p1 == SetIf(Truthy(a.observed_property), p0, "observedProperty", a.observed_property)
        p2 == SetIf(Truthy(a.status), p1, "status.label", a.status)
        p3 == SetIf(Truthy(a.search), p2, "search", a.search)
    IN  Dict(GeoLatLong(a, p3))

get_measures_endpoint(a) ==
    IF Truthy(a.measure_id) THEN "/id/measures/" \o a.measure_id.v ELSE "/id/measures"

\* lines 259-274
get_measures_params(a) ==
    LET p0 == ("_limit" :> a.limit) @@ ("_view" :> a.view)
        p1 == SetIf(Truthy(a.station_guid), p0, "station", a.station_guid)
        p2 == SetIf(Truthy(a.station_wiski_id), p1, "station.wiskiID", a.station_wiski_id)
        p3 == SetIf(Truthy(a.observed_property), p2, "observedProperty", a.observed_property)
        p4 == SetIf(Truthy(a.observation_type), p3, "observationType", a.observation_type)
    IN  IF Truthy(a.measure_id) THEN None ELSE Dict(p4)

\* lines 297-304
get_station_measures_params(a) ==
    LET p0 == ("_view" :> a.view)
        p1 == SetIf(Truthy(a.observed_property), p0, "observedProperty", a.observed_property)
        p2 == SetIf(Truthy(a.observation_type), p1, "observationType", a.observation_type)
    IN  Dict(p2)

\* lines 352-386
get_readings_params(a) ==
    LET p0 == ("_limit" :> a.limit) @@ ("_view" :> a.view)
        p1 == SetIf(Truthy(a.measure_id), p0, "measure", a.measure_id)
        p2 == SetIf(Truthy(a.station_guid), p1, "station", a.station_guid)
        p3 == SetIf(Truthy(a.station_rloi_id), p2, "station.RLOIid", a.station_rloi_id)
        p4 == SetIf(Truthy(a.station_wiski_id), p3, "station.wiskiID", a.station_wiski_id)
        p5 == SetIf(Truthy(a.observed_property), p4, "observedProperty", a.observed_property)
        p6 == SetIf(Truthy(a.observation_type), p5, "observationType", a.observation_type)
        p7 == SetIf(Truthy(a.date), p6, "date", format_date(a.date))
        p8 == SetIf(Truthy(a.min_date), p7, "min-date", format_date(a.min_date))
        p9 == SetIf(Truthy(a.max_date), p8, "max-date", format_date(a.max_date))
        p10 == SetIf(Truthy(a.min_inclusive_date), p9, "mineq-date", format_date(a.min_inclusive_date))
        p11 == SetIf(Truthy(a.max_inclusive_date), p10, "maxeq-date", format_date(a.max_inclusive_date))
        p12 == SetIf(Truthy(a.earliest), p11, "earliest", Str(""))
        p13 == SetIf(Truthy(a.latest), p12, "latest", Str(""))
        p14 == SetIf(Truthy(a.period), p13, "period", a.period)
    IN  Dict(p14)

\* lines 435-460: the form data of the batch POST
get_batch_readings_params(a) ==
    LET p0 == EmptyMap
        p1 == SetIf(Truthy(a.measure_ids), p0, "measure", a.measure_ids)
        p2 == SetIf(Truthy(a.station_guid), p1, "station", a.station_guid)
        p3 == SetIf(Truthy(a.station_rloi_id), p2, "station.RLOIid", a.station_rloi_id)
        p4 == SetIf(Truthy(a.station_wiski_id), p3, "station.wiskiID", a.station_wiski_id)
        p5 == SetIf(Truthy(a.observed_property), p4, "observedProperty", a.observed_property)
        p6 == SetIf(Truthy(a.observation_type), p5, "observationType", a.observation_type)
        p7 == SetIf(Truthy(a.min_date), p6, "min-date", format_date(a.min_date))
        p8 == SetIf(Truthy(a.max_date), p7, "max-date", format_date(a.max_date))
        p9 == SetIf(Truthy(a.min_inclusive_date), p8, "mineq-date", format_date(a.min_inclusive_date))
        p10 == SetIf(Truthy(a.max_inclusive_date), p9, "maxeq-date", format_date(a.max_inclusive_date))
    IN  Dict(p10)

-----------------------------------------------------------------------------
(* The calls the model makes: for each method a set of argument records.   *)
(* Each set is a union of slices; a slice varies some parameters over      *)
(* their inputs and leaves the others at the defaults of the signature.    *)

DateInputs == {None, Str(""), Str("07/03/2024"), Datetime(2024, 3, 7, 15)}
PropertyInputs == {None, Str("waterFlow"), Str("salinity")}
StatusInputs == {None, Str("Active"), Str("Demolished")}
Formats == {"json", "csv", "geojson"}
Opt(x) == {None, x}

get_stations_defaults ==
    [station_id |-> None, rloi_id |-> None, wiski_id |-> None, station_guid |-> None,
     observed_property |-> None, status |-> None, search |-> None, latitude |-> None,
     longitude |-> None, distance |-> None, easting |-> None, northing |-> None,
     view |-> Str("default"), limit |-> Num(100), offset |-> Num(0), format |-> "json"]

get_stations_args ==
    { [get_stations_defaults EXCEPT !.station_id = sid, !.observed_property = prop,
                                    !.status = st, !.rloi_id = rl, !.format = f] :
          sid \in Opt(Str("s1")), prop \in PropertyInputs, st \in StatusInputs,
          rl \in Opt(Str("r1")), f \in Formats }
    \cup
    { [get_stations_defaults EXCEPT !.wiski_id = w, !.station_guid = g, !.search = se,
                                    !.latitude = la, !.longitude = lo, !.distance = di,
                                    !.easting = ea, !.northing = no] :
          w \in Opt(Str("w1")), g \in Opt(Str("g1")), se \in Opt(Str("Avon")),
          la \in Opt(Num(51)), lo \in Opt(Num(0)), di \in Opt(Num(5)),
          ea \in Opt(Num(400000)), no \in Opt(Num(200000)) }

get_open_stations_defaults ==
    [from_date |-> Str("2024-01-01"), to_date |-> Str("2024-12-31"),
     observed_property |-> None, status |-> None, search |-> None, latitude |-> None,
     longitude |-> None, distance |-> None, limit |-> Num(100), offset |-> Num(0),
     format |-> "json"]

get_open_stations_args ==
    { [get_open_stations_defaults EXCEPT !.from_date = fd, !.to_date = td,
                                         !.observed_property = prop, !.status = st,
                                         !.format = f] :
          fd \in DateInputs \ {None}, td \in DateInputs \ {None},
          prop \in PropertyInputs, st \in StatusInputs, f \in Formats }
    \cup
    { [get_open_stations_defaults EXCEPT !.search = se, !.latitude = la,
                                         !.longitude = lo, !.distance = di] :
          se \in Opt(Str("Avon")), la \in Opt(Num(51)), lo \in Opt(Num(0)),
          di \in Opt(Num(5)) }

get_measures_defaults ==
    [measure_id |-> None, station_guid |-> None, station_wiski_id |-> None,
     observed_property |-> None, observation_type |-> None, view |-> Str("default"),
     limit |-> Num(100), format |-> "json"]

get_measures_args ==
    { [get_measures_defaults EXCEPT !.measure_id = m, !.station_guid = g,
                                    !.station_wiski_id = w, !.observed_property = prop,
                                    !.observation_type = ot, !.format = f] :
          m \in Opt(Str("m1")), g \in Opt(Str("g1")), w \in Opt(Str("w1")),
          prop \in PropertyInputs, ot \in Opt(Str("Qualified")), f \in Formats }

get_station_measures_defaults ==
    [station_guid |-> Str("g1"), observed_property |-> None, observation_type |-> None,
     view |-> Str("default"), format |-> "json"]

get_station_measures_args ==
    { [get_station_measures_defaults EXCEPT !.observed_property = prop,
                                            !.observation_type = ot, !.format = f] :
          prop \in PropertyInputs, ot \in Opt(Str("Qualified")), f \in Formats }

get_readings_defaults ==
    [measure_id |-> None, station_guid |-> None, station_rloi_id |-> None,
     station_wiski_id |-> None, observed_property |-> None, observation_type |-> None,
     date |-> None, min_date |-> None, max_date |-> None, min_inclusive_date |-> None,
     max_inclusive_date |-> None, earliest |-> Bool(FALSE), latest |-> Bool(FALSE),
     period |-> None, view |-> Str("default"), limit |-> Num(100), format |-> "json"]

get_readings_args ==
    { [get_readings_defaults EXCEPT !.date = d, !.min_date = mn, !.max_date = mx,
                                    !.min_inclusive_date = mni,
                                    !.max_inclusive_date = mxi] :
          d \in DateInputs, mn \in DateInputs, mx \in DateInputs, mni \in DateInputs,
          mxi \in DateInputs }
    \cup
    { [get_readings_defaults EXCEPT !.date = d, !.format = f] :
          d \in DateInputs \cup {Datetime(1987, 11, 25, 0)}, f \in Formats }
    \cup
    { [get_readings_defaults EXCEPT !.measure_id = m, !.station_guid = g,
                                    !.station_rloi_id = rl, !.station_wiski_id = w,
                                    !.observed_property = prop, !.observation_type = ot,
                                    !.earliest = e, !.latest = l, !.period = pe] :
          m \in Opt(Str("m1")), g \in Opt(Str("g1")), rl \in Opt(Str("r1")),
          w \in Opt(Str("w1")), prop \in PropertyInputs, ot \in Opt(Str("Measured")),
          e \in {Bool(FALSE), Bool(TRUE)}, l \in {Bool(FALSE), Bool(TRUE)},
          pe \in {None, Num(0), Num(900)} }

get_batch_readings_defaults ==
    [measure_ids |-> None, station_guid |-> None, station_rloi_id |-> None,
     station_wiski_id |-> None, observed_property |-> None, observation_type |-> None,
     min_date |-> None, max_date |-> None, min_inclusive_date |-> None,
     max_inclusive_date |-> None, format |-> "csv", poll_interval |-> 5,
     max_wait_time |-> 3600]

PollIntervals == -1 .. MaxPollInterval
MaxWaitTimes == -1 .. MaxWait

get_batch_readings_args ==
    { [get_batch_readings_defaults EXCEPT !.min_date = mn, !.max_date = mx,
                                          !.min_inclusive_date = mni,
                                          !.max_inclusive_date = mxi,
                                          !.poll_interval = 0, !.max_wait_time = 1] :
          mn \in DateInputs, mx \in DateInputs, mni \in DateInputs, mxi \in DateInputs }
    \cup
    { [get_batch_readings_defaults EXCEPT !.measure_ids = ms, !.station_guid = g,
                                          !.observed_property = prop,
                                          !.poll_interval = pi, !.max_wait_time = mw] :
          ms \in {None, List(<< >>), List(<< Str("m1"), Str("m2") >>)},
          g \in Opt(Str("g1")), prop \in Opt(Str("waterFlow")),
          pi \in PollIntervals, mw \in MaxWaitTimes }

download_batch_results_args == { [download_url |-> Str(u)] : u \in {"u1", "d1"} }

Methods == {"get_stations", "get_open_stations", "get_measures", "get_station_measures",
            "get_readings", "get_batch_readings", "download_batch_results"}

ArgsOf(m) ==
    CASE m = "get_stations" -> get_stations_args
      [] m = "get_open_stations" -> get_open_stations_args
      [] m = "get_measures" -> get_measures_args
      [] m = "get_station_measures" -> get_station_measures_args
      [] m = "get_readings" -> get_readings_args
      [] m = "get_batch_readings" -> get_batch_readings_args
      [] m = "download_batch_results" -> download_batch_results_args

-----------------------------------------------------------------------------
(* The session and the context manager, lines 52 and 514-522 *)

\* line 52: the session object the constructor makes, closed no times yet
Session == [id |-> 1, closes |-> 0]

\* lines 514-516: close() closes the session
close(s) == [s EXCEPT !.closes = @ + 1]

\* exit_result closing the session only when the block ended without an error
ExitSkipsCloseOnError(s, o) ==
    [session |-> IF o.kind = "raise" THEN s ELSE close(s), value |-> None]

\* lines 521-522: __exit__ closes the session whatever ended the block (o),
\* and returns None
exit_result(s, o) == [session |-> close(s), value |-> None]

-----------------------------------------------------------------------------
(* The state after construction (lines 49-52): no call is in progress *)

Init ==
    /\ pc = "idle"
    /\ op = ""
    /\ args = None
    /\ now = 0
    /\ start_time = 0
    /\ status_url = None
    /\ elapsed = 0
    /\ submitted = [at |-> 0, response |-> NoResponse]
    /\ polledOk = TRUE
    /\ lastReq = NoRequest
    /\ served = NoResponse
    /\ nPost = 0
    /\ nGet = 0
    /\ nSleep = 0
    /\ lastEv = "none"
    /\ burst = 0
    /\ warnings = {}
    /\ outcome = NotEnded
    /\ session = Session
    /\ block = "none"
    /\ calls = 0
    /\ propagated = NotEnded
    /\ sessionLog = {}

\* the caller invokes method m with arguments a
Call ==
    /\ pc = "idle"
    /\ \E m \in Methods : \E a \in ArgsOf(m) :
          /\ op' = m
          /\ args' = a
    /\ pc' = "called"
    /\ UNCHANGED << now, start_time, status_url, elapsed, submitted, polledOk, lastReq,
                    served, nPost, nGet, nSleep, lastEv, burst, warnings, outcome >>
    /\ UNCHANGED << ctx, sessionLog >>

\* a step that takes d time units: when MaxBurst steps in a row have taken
\* less than one unit, the next one takes at least one
Elapse(d) ==
    /\ d = 0 => burst < MaxBurst
    /\ now' = now + d
    /\ burst' = IF d = 0 THEN burst + 1 ELSE 0

\* the one session.get of an accessor (lines 76-81) and the rest of
\* _make_request, whose result the accessor returns
Fetch(endpoint, format, params, warns) ==
    \E r \in GetResponses :
        /\ lastReq' = Request("GET", make_request_url(endpoint, format), params, None)
        /\ served' = r
        /\ nGet' = nGet + 1
        /\ lastEv' = "GET"
        /\ warnings' = warns
        /\ outcome' = make_request(format, r)
        /\ pc' = "done"
        /\ sessionLog' = sessionLog \cup {session}
        /\ UNCHANGED << op, args, now, start_time, status_url, elapsed, submitted,
                        polledOk, nPost, nSleep, burst >>
        /\ UNCHANGED ctx

get_stations ==
    /\ pc = "called" /\ op = "get_stations"
    /\ Fetch(get_stations_endpoint(args), args.format, get_stations_params(args),
             get_stations_warnings(args))

get_open_stations ==
    /\ pc = "called" /\ op = "get_open_stations"
    /\ Fetch("/id/open/stations", args.format, get_open_stations_params(args), {})

get_measures ==
    /\ pc = "called" /\ op = "get_measures"
    /\ Fetch(get_measures_endpoint(args), args.format, get_measures_params(args), {})

get_station_measures ==
    /\ pc = "called" /\ op = "get_station_measures"
    /\ Fetch("/id/stations/" \o args.station_guid.v \o "/measures", args.format,
             get_station_measures_params(args), {})

get_readings ==
    /\ pc = "called" /\ op = "get_readings"
    /\ Fetch("/data/readings", args.format, get_readings_params(args), {})

\* lines 507-512
download_result(r) ==
    IF r.exc # "none"
    THEN HydrologyAPIError("Failed to download batch results: ", Str(r.exc))
    ELSE Return(Text(r.body))

download_batch_results ==
    /\ pc = "called" /\ op = "download_batch_results"
    /\ \E r \in GetResponses :
        /\ lastReq' = Request("GET", args.download_url.v, None, None)
        /\ served' = r
        /\ nGet' = nGet + 1
        /\ lastEv' = "GET"
        /\ outcome' = download_result(r)
        /\ pc' = "done"
        /\ sessionLog' = sessionLog \cup {session}
        /\ UNCHANGED << op, args, now, start_time, status_url, elapsed, submitted,
                        polledOk, nPost, nSleep, burst, warnings >>
        /\ UNCHANGED ctx

-----------------------------------------------------------------------------
(* get_batch_readings, lines 430-495 *)

\* submit_result with `if status_url is None` for `if not status_url`
SubmitResultAcceptsEmptyLocation(r) ==
    IF r.exc # "none"
    THEN HydrologyAPIError("Failed to submit batch request: ", Str(r.exc))
    ELSE IF r.location = None
         THEN HydrologyAPIError("No status URL provided in batch response", None)
         ELSE NotEnded

\* lines 464-472: how the submission ends, NotEnded when it goes on to poll
submit_result(r) ==
    IF r.exc # "none"
    THEN HydrologyAPIError("Failed to submit batch request: ", Str(r.exc))
    ELSE IF ~Truthy(r.location)
         THEN HydrologyAPIError("No status URL provided in batch response", None)
         ELSE NotEnded

\* the arguments the poll loop still reads
LoopArgs(a) == [poll_interval |-> a.poll_interval, max_wait_time |-> a.max_wait_time]

\* lines 430-475: build the form data, POST it, read the Location header and
\* start the clock of the poll loop
get_batch_readings_submit ==
    /\ pc = "called" /\ op = "get_batch_readings"
    /\ \E r \in PostResponses : \E d \in 0 .. MaxDelay :
        /\ Elapse(d)
        /\ lastReq' = Request("POST", BASE_URL \o "/data/batch.json", None,
                              get_batch_readings_params(args))
        /\ served' = r
        /\ submitted' = [at |-> now, response |-> r]
        /\ nPost' = nPost + 1
        /\ lastEv' = "POST"
        /\ outcome' = submit_result(r)
        /\ IF submit_result(r) = NotEnded
           THEN /\ status_url' = r.location
                /\ start_time' = now'
                /\ pc' = "check"
           ELSE /\ UNCHANGED << status_url, start_time >>
                /\ pc' = "done"
        /\ args' = LoopArgs(args)
        /\ sessionLog' = sessionLog \cup {session}
        /\ UNCHANGED << op, elapsed, polledOk, nGet, nSleep, warnings >>
        /\ UNCHANGED ctx

\* TimedOut with the ceiling off by one
TimedOutLate(e, max_wait_time) == e > max_wait_time + 1

\* line 478
TimedOut(e, max_wait_time) == e > max_wait_time

\* line 479
timeout_error(max_wait_time) ==
    HydrologyAPIError("Batch request timed out after ", Num(max_wait_time))

\* lines 477-479: read the clock and compare with the ceiling
get_batch_readings_check ==
    /\ pc = "check"
    /\ \E d \in 0 .. MaxStep :
        /\ Elapse(d)
        /\ elapsed' = now' - start_time
        /\ IF TimedOut(elapsed', args.max_wait_time)
           THEN /\ outcome' = timeout_error(args.max_wait_time)
                /\ pc' = "done"
           ELSE /\ outcome' = outcome
                /\ pc' = "poll"
    /\ UNCHANGED << op, args, start_time, status_url, submitted, polledOk, lastReq,
                    served, nPost, nGet, nSleep, lastEv, warnings >>
    /\ UNCHANGED << ctx, sessionLog >>

\* poll_result polling again after a status request that timed out
PollResultRetriesTimeout(r) ==
    IF r.exc = "Timeout"
    THEN NotEnded
    ELSE IF r.exc # "none"
    THEN HydrologyAPIError("Failed to check batch status: ", Str(r.exc))
    ELSE IF ~json(r.body).ok
         THEN HydrologyAPIError("Failed to check batch status: ", Str("JSONDecodeError"))
    ELSE LET status_data == json(r.body).val IN
         IF status_data.t # "dict"
         THEN Raise("AttributeError", "object has no attribute 'get'", status_data)
         ELSE IF DictGet(status_data, "status") = Str("Completed")
              THEN Return(status_data)
         ELSE IF DictGet(status_data, "status") = Str("Failed")
              THEN HydrologyAPIError("Batch request failed: ", status_data)
         ELSE NotEnded

\* poll_result without the test of line 488
PollResultMissesCompleted(r) ==
    IF r.exc # "none"
    THEN HydrologyAPIError("Failed to check batch status: ", Str(r.exc))
    ELSE IF ~json(r.body).ok
         THEN HydrologyAPIError("Failed to check batch status: ", Str("JSONDecodeError"))
    ELSE LET status_data == json(r.body).val IN
         IF status_data.t # "dict"
         THEN Raise("AttributeError", "object has no attribute 'get'", status_data)
         ELSE IF DictGet(status_data, "status") = Str("Failed")
              THEN HydrologyAPIError("Batch request failed: ", status_data)
         ELSE NotEnded

\* lines 481-491: what the response r to the status GET leads to, NotEnded
\* when the loop goes on.  response.json() raises requests' JSONDecodeError
\* on a malformed body, which is a RequestException (requests 2.27 and later)
\* and so is caught at line 485.
poll_result(r) ==
    IF r.exc # "none"
    THEN HydrologyAPIError("Failed to check batch status: ", Str(r.exc))
    ELSE IF ~json(r.body).ok
         THEN HydrologyAPIError("Failed to check batch status: ", Str("JSONDecodeError"))
    ELSE LET status_data == json(r.body).val IN
         IF status_data.t # "dict"
         THEN Raise("AttributeError", "object has no attribute 'get'", status_data)
         ELSE IF DictGet(status_data, "status") = Str("Completed")
              THEN Return(status_data)
         ELSE IF DictGet(status_data, "status") = Str("Failed")
              THEN HydrologyAPIError("Batch request failed: ", status_data)
         ELSE NotEnded

\* lines 481-494: one status poll
get_batch_readings_poll ==
    /\ pc = "poll"
    /\ \E r \in GetResponses : \E d \in 0 .. MaxDelay :
        /\ Elapse(d)
        /\ lastReq' = Request("GET", status_url.v, None, None)
        /\ served' = r
        /\ nGet' = nGet + 1
        /\ lastEv' = "GET"
        /\ outcome' = poll_result(r)
        /\ pc' = IF poll_result(r) = NotEnded THEN "sleep" ELSE "done"
        /\ polledOk' = (polledOk /\ NonTerminal(r))
    /\ sessionLog' = sessionLog \cup {session}
    /\ UNCHANGED << op, args, start_time, status_url, elapsed, submitted, nPost, nSleep,
                    warnings >>
    /\ UNCHANGED ctx

\* line 495: time.sleep(poll_interval) raises ValueError on a negative
\* length, and otherwise returns after at least poll_interval
get_batch_readings_sleep ==
    /\ pc = "sleep"
    /\ nSleep' = nSleep + 1
    /\ lastEv' = "SLEEP"
    /\ IF args.poll_interval < 0
       THEN /\ outcome' = Raise("ValueError", "sleep length must be non-negative",
                                Num(args.poll_interval))
            /\ pc' = "done"
            /\ UNCHANGED << now, burst >>
       ELSE /\ \E d \in 0 .. MaxStep : Elapse(args.poll_interval + d)
            /\ outcome' = outcome
            /\ pc' = "check"
    /\ UNCHANGED << op, args, start_time, status_url, elapsed, submitted, polledOk,
                    lastReq, served, nPost, nGet, warnings >>
    /\ UNCHANGED << ctx, sessionLog >>

Next ==
    \/ Call
    \/ get_stations
    \/ get_open_stations
    \/ get_measures
    \/ get_station_measures
    \/ get_readings
    \/ download_batch_results
    \/ get_batch_readings_submit
    \/ get_batch_readings_check
    \/ get_batch_readings_poll
    \/ get_batch_readings_sleep

Spec == Init /\ [][Next]_vars

\* the interpreter keeps executing the call, and every request is answered
\* or times out (timeout=self.timeout)
FairSpec == Spec /\ WF_vars(Next)

-----------------------------------------------------------------------------
(* The client used as a context manager: `with HydrologyAPI() as api:`     *)
(* (lines 532, 541), the calls of the block's body, and the end of the     *)
(* block.  An exception a call raises is not caught by the body: it ends   *)
(* the block.                                                              *)

\* the calls made in a block
BlockMethods == {"get_stations", "get_batch_readings", "download_batch_results"}

BlockArgsOf(m) ==
    CASE m = "get_stations" ->
             { get_stations_defaults,
               [get_stations_defaults EXCEPT !.observed_property = Str("waterFlow"),
                                             !.limit = Num(5)] }
      [] m = "get_batch_readings" ->
             { [get_batch_readings_defaults EXCEPT !.measure_ids = List(<< Str("m1") >>),
                                                   !.poll_interval = 1,
                                                   !.max_wait_time = mw] : mw \in {0, 2} }
      [] m = "download_batch_results" -> { [download_url |-> Str("d1")] }

\* lines 518-519: __enter__ returns the client itself, with the session the
\* constructor made
enter ==
    /\ block = "none" /\ pc = "idle"
    /\ block' = "entered"
    /\ UNCHANGED << pc, op, args, now, start_time, status_url, elapsed, submitted,
                    polledOk, lastReq, served, nPost, nGet, nSleep, lastEv, burst,
                    warnings, outcome, session, calls, propagated, sessionLog >>

\* the body of the block calls method m with arguments a
call_in_block ==
    /\ block = "entered" /\ pc = "idle"
    /\ calls < MaxCalls
    /\ \E m \in BlockMethods : \E a \in BlockArgsOf(m) :
          /\ op' = m
          /\ args' = a
    /\ pc' = "called"
    /\ calls' = calls + 1
    /\ UNCHANGED << now, start_time, status_url, elapsed, submitted, polledOk, lastReq,
                    served, nPost, nGet, nSleep, lastEv, burst, warnings, outcome,
                    session, block, propagated, sessionLog >>

\* a call of the body has returned and the body goes on: what the call kept
\* in its local variables is gone, the client keeps its session
resume ==
    /\ block = "entered" /\ pc = "done" /\ outcome.kind = "return"
    /\ pc' = "idle"
    /\ op' = ""
    /\ args' = None
    /\ start_time' = 0
    /\ status_url' = None
    /\ elapsed' = 0
    /\ submitted' = [at |-> 0, response |-> NoResponse]
    /\ polledOk' = TRUE
    /\ lastReq' = NoRequest
    /\ served' = NoResponse
    /\ nPost' = 0
    /\ nGet' = 0
    /\ nSleep' = 0
    /\ lastEv' = "none"
    /\ warnings' = {}
    /\ outcome' = NotEnded
    /\ UNCHANGED << now, burst, session, block, calls, propagated, sessionLog >>

\* lines 521-522: the block ends, by its body running to its end or by the
\* exception of a call, and __exit__ runs; the exception goes on to the
\* caller unless __exit__ returns a true value
exit ==
    /\ block = "entered"
    /\ pc = "idle" \/ (pc = "done" /\ outcome.kind = "raise")
    /\ session' = exit_result(session, outcome).session
    /\ propagated' = IF outcome.kind = "raise" /\ ~Truthy(exit_result(session, outcome).value)
                      THEN outcome
                      ELSE NotEnded
    /\ block' = "exited"
    /\ UNCHANGED << pc, op, args, now, start_time, status_url, elapsed, submitted,
                    polledOk, lastReq, served, nPost, nGet, nSleep, lastEv, burst,
                    warnings, outcome, calls, sessionLog >>

NextWith ==
    \/ enter
    \/ call_in_block
    \/ get_stations
    \/ download_batch_results
    \/ get_batch_readings_submit
    \/ get_batch_readings_check
    \/ get_batch_readings_poll
    \/ get_batch_readings_sleep
    \/ resume
    \/ exit

SpecWith == Init /\ [][NextWith]_vars

-----------------------------------------------------------------------------
(* The error taxonomy of the specification.  The code raises one exception *)
(* class, HydrologyAPIError, at every site; an error of the taxonomy is    *)
(* the HydrologyAPIError a given raise statement builds, told by its       *)
(* message.                                                                *)

RaisedWith(o, msgs) == o.kind = "raise" /\ o.cls = "HydrologyAPIError" /\ o.msg \in msgs

RequestError(o) == RaisedWith(o, {"API request failed: "})
DecodeError(o) == RaisedWith(o, {"Failed to parse JSON response: "})
BatchSubmissionError(o) ==
    RaisedWith(o, {"Failed to submit batch request: ", "No status URL provided in batch response"})
BatchStatusError(o) == RaisedWith(o, {"Failed to check batch status: "})
BatchFailedError(o) == RaisedWith(o, {"Batch request failed: "})
BatchTimeoutError(o) == RaisedWith(o, {"Batch request timed out after "})
DownloadError(o) == RaisedWith(o, {"Failed to download batch results: "})

InBatch == op = "get_batch_readings" /\ pc # "called"

\* the POST failed, or was answered without a usable Location header
SubmissionFailed ==
    \/ submitted.response.exc # "none"
    \/ submitted.response.location \in {None, Str("")}

\* the response to the latest status GET is in `served`
JustPolled == InBatch /\ lastEv = "GET"

-----------------------------------------------------------------------------
(* C1: when the batch POST fails, or its response has no Location header   *)
(* or an empty one, get_batch_readings ends with the submission error and  *)
(* the call issues no status GET and makes no sleep.                       *)
C1_SubmissionFailureEndsCall ==
    (InBatch /\ SubmissionFailed) =>
        /\ pc = "done"
        /\ BatchSubmissionError(outcome)
        /\ nPost = 1 /\ nGet = 0 /\ nSleep = 0

C1_Witness ==
    /\ InBatch /\ pc = "done"
    /\ submitted.response.exc = "none"
    /\ submitted.response.location = Str("")
    /\ BatchSubmissionError(outcome)

-----------------------------------------------------------------------------
(* C2: a sleep is made only right after a status poll that succeeded and   *)
(* reported a status other than Completed and Failed, so never before the  *)
(* first poll and never after a terminal one; and a first poll that        *)
(* reports Completed ends the call with that payload returned, after one   *)
(* GET and no sleep, whatever max_wait_time and poll_interval are.         *)
C2_SleepOnlyAfterNonTerminalPoll ==
    /\ [][nSleep' # nSleep =>
            /\ nSleep' = nSleep + 1
            /\ lastEv = "GET" /\ nGet >= 1
            /\ NonTerminal(served)]_vars
    /\ [](JustPolled /\ ReportedStatus(served) = Str("Completed") =>
            /\ pc = "done"
            /\ outcome = Return(json(served.body).val)
            /\ nSleep = nGet - 1)

C2_Witness ==
    /\ JustPolled /\ pc = "done"
    /\ nGet = 1 /\ nSleep = 0
    /\ args.max_wait_time = 0 /\ args.poll_interval = -1
    /\ outcome = Return(Dict([status |-> Str("Completed"), url |-> Str("u1")]))

-----------------------------------------------------------------------------
\* the exception classes of the submission, status, timeout and download errors
OtherErrorClasses ==
    { submit_result(Response("Timeout", << >>, None)).cls,
      poll_result(Response("Timeout", << >>, None)).cls,
      timeout_error(0).cls,
      download_result(Response("Timeout", << >>, None)).cls }

(* C3: a status poll that reports Failed ends the call at once with an     *)
(* error that carries that poll's payload and whose kind (exception class) *)
(* is not the kind of the submission, status, timeout or download error.   *)
C3_FailedHasItsOwnErrorKind ==
    (JustPolled /\ ReportedStatus(served) = Str("Failed")) =>
        /\ pc = "done"
        /\ outcome.kind = "raise"
        /\ outcome.value = json(served.body).val
        /\ outcome.cls \notin OtherErrorClasses

-----------------------------------------------------------------------------
\* the submission succeeded, with arguments in the range the claim is about
C4_Applies ==
    /\ InBatch /\ ~SubmissionFailed
    /\ args.poll_interval >= 0 /\ args.max_wait_time >= 0

(* C4: when the submission succeeds and every status poll succeeds with a  *)
(* status other than Completed and Failed, the call ends, and ends with    *)
(* the timeout error, for every poll_interval >= 0 and max_wait_time >= 0; *)
(* the loop iteration whose clock reading is more than max_wait_time after *)
(* the start of the loop raises it, without polling.                       *)
C4_NonTerminalPollsEndInTimeout ==
    /\ C4_Applies ~> (pc = "done" /\ (polledOk => BatchTimeoutError(outcome)))
    /\ [][pc = "check" /\ now' - start_time > args.max_wait_time =>
            /\ pc' = "done"
            /\ BatchTimeoutError(outcome')
            /\ nGet' = nGet /\ nSleep' = nSleep]_vars

C4_Witness ==
    /\ C4_Applies /\ pc = "done" /\ polledOk
    /\ args.poll_interval = 0
    /\ nGet >= 2
    /\ BatchTimeoutError(outcome)

-----------------------------------------------------------------------------
(* C5, as claimed: the call never returns a Completed payload, and never   *)
(* reports Failed, from a status response that arrived when more than      *)
(* max_wait_time had passed since the submission.                          *)
C5_NoResultAfterCeiling ==
    (/\ JustPolled /\ pc = "done"
     /\ args.poll_interval >= 0 /\ args.max_wait_time >= 0
     /\ (outcome.kind = "return" \/ BatchFailedError(outcome))) =>
        now - submitted.at <= args.max_wait_time

(* C5, amended: the ceiling is compared once per loop iteration, before    *)
(* the status GET, with the time since the loop started (start_time, taken *)
(* when the POST had been answered): every status GET is sent by an        *)
(* iteration whose reading was within max_wait_time, and the timeout error *)
(* is raised by an iteration whose reading was beyond it.                  *)
C5_CeilingCheckedBeforeEachPoll ==
    /\ (InBatch /\ (pc = "poll" \/ lastEv = "GET")) => elapsed <= args.max_wait_time
    /\ (InBatch /\ BatchTimeoutError(outcome)) =>
            /\ elapsed > args.max_wait_time
            /\ elapsed = now - start_time
    /\ (InBatch /\ ~SubmissionFailed) => start_time >= submitted.at

C5_Witness ==
    /\ JustPolled /\ pc = "done"
    /\ ReportedStatus(served) = Str("Completed")
    /\ outcome.kind = "return"
    /\ elapsed <= args.max_wait_time
    /\ now - start_time > args.max_wait_time

-----------------------------------------------------------------------------
\* a status poll that failed in transport or in parsing
PollFailure(r) ==
    \/ r.exc # "none"
    \/ ~json(r.body).ok
    \/ json(r.body).val.t # "dict"
    \/ "status" \notin DOMAIN json(r.body).val.v

(* C6: a status poll that fails in transport, or whose body is not         *)
(* decodable JSON, or is JSON that is not an object with a status field,   *)
(* ends the call at once with the status error, so that no sleep follows   *)
(* it and no other exception reaches the caller (stated for the calls with *)
(* a poll_interval that time.sleep accepts).                               *)
C6_PollFailureIsStatusError ==
    (JustPolled /\ PollFailure(served) /\ args.poll_interval >= 0) =>
        /\ pc = "done"
        /\ BatchStatusError(outcome)

-----------------------------------------------------------------------------
(* C7: a call of get_batch_readings (with a poll_interval that time.sleep  *)
(* accepts) ends in one of five outcomes: the Completed payload returned,  *)
(* or the failed, timeout, status or submission error.                     *)
C7_EndsInOneOfFiveOutcomes ==
    (InBatch /\ pc = "done" /\ args.poll_interval >= 0) =>
        \/ outcome.kind = "return" /\ ReportedStatus(served) = Str("Completed")
        \/ BatchFailedError(outcome)
        \/ BatchTimeoutError(outcome)
        \/ BatchStatusError(outcome)
        \/ BatchSubmissionError(outcome)

-----------------------------------------------------------------------------
\* the read accessors, which all go through _make_request
Accessors == {"get_stations", "get_open_stations", "get_measures",
              "get_station_measures", "get_readings"}

(* C8: _make_request gives every response one outcome: the request error   *)
(* when the transport failed; else, for format json, the decoded body, or  *)
(* the decode error when the body is not JSON; else, for any other format, *)
(* the response text as it was received.                                   *)
C8_MakeRequestClassifies ==
    (pc = "done" /\ op \in Accessors) =>
        IF served.exc # "none" THEN RequestError(outcome)
        ELSE IF args.format # "json" THEN outcome = Return(Text(served.body))
        ELSE IF json(served.body).ok THEN outcome = Return(json(served.body).val)
        ELSE DecodeError(outcome)

C8_Witness ==
    /\ pc = "done" /\ op = "get_readings"
    /\ args.format = "csv"
    /\ served.exc = "none" /\ served.body = << "{" >>
    /\ outcome = Return(Text(<< "{" >>))

-----------------------------------------------------------------------------
(* C9: no request is issued again after it failed.  A read accessor and    *)
(* download_batch_results issue one GET and nothing else;                  *)
(* get_batch_readings issues one POST, before any GET, then only GETs of   *)
(* the status URL the POST was answered with, and a further GET only when  *)
(* the previous one succeeded with a status other than Completed and       *)
(* Failed; a request that failed in transport ends the call.               *)
C9_NoRequestIsReissued ==
    /\ []((pc = "done" /\ op \in Accessors \cup {"download_batch_results"}) =>
            /\ nGet = 1 /\ nPost = 0 /\ nSleep = 0
            /\ lastReq.method = "GET")
    /\ [](InBatch => nPost = 1)
    /\ []((InBatch /\ nGet >= 1) =>
            /\ lastReq.method = "GET"
            /\ Str(lastReq.url) = submitted.response.location
            /\ lastReq.data = None)
    /\ []((lastEv \in {"GET", "POST"} /\ served.exc # "none") => pc = "done")
    /\ [][nGet' # nGet =>
            /\ nGet' = nGet + 1 /\ nPost' = nPost
            /\ (InBatch /\ nGet >= 1) => NonTerminal(served)]_vars
    /\ [][nPost' # nPost => nPost = 0 /\ nGet = 0 /\ nGet' = 0]_vars

C9_Witness ==
    /\ InBatch /\ pc = "done"
    /\ nPost = 1 /\ nGet = 3
    /\ served.exc = "ConnectionError"
    /\ lastReq = Request("GET", "u2", None, None)

-----------------------------------------------------------------------------
\* each date argument with the query parameter that is its own
ReadingsDateKeys ==
    { << "date", "date" >>, << "min_date", "min-date" >>, << "max_date", "max-date" >>,
      << "min_inclusive_date", "mineq-date" >>, << "max_inclusive_date", "maxeq-date" >> }
BatchDateKeys == ReadingsDateKeys \ { << "date", "date" >> }

Supplied(x) == x \notin {None, Str("")}

TwoDigits ==
    << "01", "02", "03", "04", "05", "06", "07", "08", "09", "10", "11", "12", "13",
       "14", "15", "16", "17", "18", "19", "20", "21", "22", "23", "24", "25", "26",
       "27", "28", "29", "30", "31" >>
YearText(y) == CASE y = 2024 -> "2024" [] y = 1987 -> "1987"
IsoDate(d) == YearText(d.year) \o "-" \o TwoDigits[d.month] \o "-" \o TwoDigits[d.day]
Transmitted(x) == IF x.t = "datetime" THEN Str(IsoDate(x)) ELSE x

DatesSent(a, p, pairs) ==
    /\ \A pr \in pairs :
          IF Supplied(a[pr[1]])
          THEN pr[2] \in DOMAIN p /\ p[pr[2]] = Transmitted(a[pr[1]])
          ELSE pr[2] \notin DOMAIN p
    /\ \A pr \in ReadingsDateKeys \ pairs : pr[2] \notin DOMAIN p

(* C10: get_readings and get_batch_readings send each supplied date filter *)
(* under its own key and under no other, and send no key for a filter that *)
(* is not supplied (None or the empty string); a datetime is sent as       *)
(* YYYY-MM-DD and a string as it was given.                                *)
C10_DateFiltersSentUnderOwnKey ==
    /\ [][(pc = "called" /\ op = "get_readings" /\ pc' # "called") =>
            /\ lastReq'.method = "GET"
            /\ DatesSent(args, lastReq'.params.v, ReadingsDateKeys)]_vars
    /\ [][(pc = "called" /\ op = "get_batch_readings" /\ pc' # "called") =>
            /\ lastReq'.method = "POST"
            /\ DatesSent(args, lastReq'.data.v, BatchDateKeys)]_vars

C10_Witness ==
    /\ InBatch /\ pc = "check"
    /\ lastReq.method = "POST"
    /\ DOMAIN lastReq.data.v = {"min-date", "maxeq-date"}
    /\ lastReq.data.v["min-date"] = Str("2024-03-07")
    /\ lastReq.data.v["maxeq-date"] = Str("07/03/2024")

-----------------------------------------------------------------------------
\* a filter value that is supplied and is not in the enumeration
Unknown(x, known) == x.t = "str" /\ x.v # "" /\ x.v \notin known

\* the request that was sent carries v as its query parameter k
SentAs(k, v) ==
    /\ lastReq.params.t = "dict"
    /\ k \in DOMAIN lastReq.params.v
    /\ lastReq.params.v[k] = v

\* the accessors that take a status filter
StatusAccessors == {"get_stations", "get_open_stations"}

(* C11: in every read accessor, an observed_property (and, where the       *)
(* accessor takes one, a status) outside the known enumeration is sent     *)
(* unchanged as the observedProperty (status.label) query parameter of the *)
(* request, and a warning about it is logged, whatever the other arguments *)
(* are, a station_id included.                                             *)
C11_UnknownFilterPassedWithWarning ==
    (pc = "done" /\ op \in Accessors) =>
        /\ Unknown(args.observed_property, OBSERVED_PROPERTIES) =>
              /\ SentAs("observedProperty", args.observed_property)
              /\ Warning("Unknown observed property: ", args.observed_property) \in warnings
        /\ (op \in StatusAccessors /\ Unknown(args.status, STATION_STATUSES)) =>
              /\ SentAs("status.label", args.status)
              /\ Warning("Unknown status: ", args.status) \in warnings

-----------------------------------------------------------------------------
(* C12: when the client is used as a context manager, the session is       *)
(* closed exactly once when the block ends, whether its body ran to the    *)
(* end or a call raised an error (an error raised during polling           *)
(* included); the error goes on to the caller; and until the block ends    *)
(* every request of every call is issued on the one session the client was *)
(* constructed with, which has not been closed.                            *)
C12_SessionClosedOnceOnEveryExit ==
    /\ session.id = Session.id
    /\ block = "entered" => session.closes = 0
    /\ block = "exited" => session.closes = 1
    /\ block = "exited" => propagated = (IF outcome.kind = "raise" THEN outcome ELSE NotEnded)
    /\ sessionLog \subseteq {Session}
    /\ (block = "entered" /\ pc = "done" /\ outcome.kind = "raise") => ENABLED exit

\* the block's second call raised BatchStatusError while polling, and the
\* block ended with it
C12_Witness ==
    /\ block = "exited"
    /\ calls >= 2
    /\ nGet > 0
    /\ BatchStatusError(outcome)
    /\ propagated = outcome
    /\ session.closes = 1
    /\ sessionLog = {Session}

====
